---- MODULE Spec2Model ----
(***************************************************************************)
(* Model of DeviceLocationTracker (src/locate.py): per-anchor reading      *)
(* ingestion, staleness filter, weighted multilateration, floor snapping,  *)
(* room lookup and change-gated persistence.                               *)
(*                                                                         *)
(* Units: lengths are integers in 1e-4 m, distances reported by anchors    *)
(* are integers in 0.1 m (so "distance > 0.1" is "d > 1"), time is in      *)
(* seconds.  A computed coordinate is an exact rational [n, d].            *)
(***************************************************************************)
EXTENDS Integers, Sequences, FiniteSets, TLC

\* ------------------------------------------------------------------ bounds
MaxMsgs == 5         \* messages delivered in one run

\* ----------------------------------------------------------- configuration
FEET_TO_METERS == 3048                 \* 0.3048 m, in 1e-4 m

\* x metres (in 1e-4 m) times 0.3048, rounded to 1e-4 m
TimesFeetToMeters(x) == (x * FEET_TO_METERS + 5000) \div 10000

home_width   == 27 * FEET_TO_METERS
home_length  == 42 * FEET_TO_METERS
floor_height == 10 * FEET_TO_METERS

TTL == 60
MinReadings == 3
ClampDistance == 1                     \* 0.1 m, in 0.1 m
ClampWeight == 100

esp32_ids ==
  {"espresense_readingroom", "espresense_studio", "espresense_bedroom",
   "espresense_amma", "espresense_kitchen", "espresense_theatre",
   "espresense_thetophat"}

esp32_positions ==
  [a \in esp32_ids |->
     CASE a = "espresense_readingroom" ->
            <<10 * FEET_TO_METERS, 10 * FEET_TO_METERS, 5 * FEET_TO_METERS>>
       [] a = "espresense_studio" ->
            <<TimesFeetToMeters(home_length - 50000), 6 * FEET_TO_METERS,
              3 * FEET_TO_METERS>>
       [] a = "espresense_bedroom" ->
            <<TimesFeetToMeters(home_length - 100000), 5 * FEET_TO_METERS,
              floor_height + 5 * FEET_TO_METERS>>
       [] a = "espresense_amma" ->
            <<TimesFeetToMeters(home_length - 100000),
              TimesFeetToMeters(home_width - 40000),
              floor_height + 2 * FEET_TO_METERS>>
       [] a = "espresense_kitchen" ->
            <<15 * FEET_TO_METERS, 6 * FEET_TO_METERS,
              floor_height + 3 * FEET_TO_METERS>>
       [] a = "espresense_theatre" ->
            <<TimesFeetToMeters(home_length - 70000),
              TimesFeetToMeters(home_width - 120000),
              2 * floor_height + 2 * FEET_TO_METERS>>
       [] a = "espresense_thetophat" ->
            <<TimesFeetToMeters(home_length - 210000),
              TimesFeetToMeters(home_width - 40000),
              2 * floor_height + 10 * FEET_TO_METERS>>]

\* room table in declaration order; bounds = <<x_min, x_max, y_min, y_max, z_min, z_max>>
rooms ==
  << [name |-> "The Reading Space",
      bounds |-> <<0, home_width \div 2, 0, home_length \div 2, 0, floor_height>>],
     [name |-> "Studio",
      bounds |-> <<0, home_width \div 2, home_length \div 2, home_length, 0, floor_height>>],
     [name |-> "Ground Floor Hall",
      bounds |-> <<home_width \div 2, home_width, 0, home_length, 0, floor_height>>],
     [name |-> "Bedroom",
      bounds |-> <<0, 10 * FEET_TO_METERS, 0, 15 * FEET_TO_METERS,
                   floor_height, 2 * floor_height>>],
     [name |-> "Amma Bedroom",
      bounds |-> <<0, 10 * FEET_TO_METERS, home_width - 15 * FEET_TO_METERS, home_width,
                   floor_height, 2 * floor_height>>],
     [name |-> "Kitchen",
      bounds |-> <<home_length - 15 * FEET_TO_METERS, home_length, 0, 10 * FEET_TO_METERS,
                   floor_height, 2 * floor_height>>],
     [name |-> "Hall",
      bounds |-> <<10 * FEET_TO_METERS, home_length - 15 * FEET_TO_METERS, 0, home_width,
                   floor_height, 2 * floor_height>>],
     [name |-> "Theatre",
      bounds |-> <<home_length - 20 * FEET_TO_METERS, home_length, 0, 10 * FEET_TO_METERS,
                   2 * floor_height, 3 * floor_height>>],
     [name |-> "Den",
      bounds |-> <<home_length - 20 * FEET_TO_METERS, home_length,
                   10 * FEET_TO_METERS, 20 * FEET_TO_METERS,
                   2 * floor_height, 3 * floor_height>>],
     [name |-> "The Open Top",
      bounds |-> <<0, home_length - 20 * FEET_TO_METERS, 0, home_width,
                   2 * floor_height, 3 * floor_height>>] >>

device_ids ==
  {"irk:1f675efed04b065afa81b46b500cf042", "irk:7aa501ab6bd5c2382aecff28ddfa1eee",
   "irk:37112d6ca4debb67092ef94601af9318", "irk:48b4be2a5da9c3667670417d24d0b32f"}

device_names ==
  [d \in device_ids |->
     CASE d = "irk:1f675efed04b065afa81b46b500cf042" -> "Su Watch"
       [] d = "irk:7aa501ab6bd5c2382aecff28ddfa1eee" -> "Sn iPhone"
       [] d = "irk:37112d6ca4debb67092ef94601af9318" -> "Su iPhone"
       [] d = "irk:48b4be2a5da9c3667670417d24d0b32f" -> "Sn Watch"]

\* --------------------------------------------------------- pure functions
Rat(i) == [n |-> i, d |-> 1]
RatLeq(a, b) == a.n * b.d <= b.n * a.d
RatLess(a, b) == a.n * b.d < b.n * a.d

RECURSIVE GCD(_, _)
GCD(a, b) == IF b = 0 THEN a ELSE GCD(b, a % b)
LCM(a, b) == (a * b) \div GCD(a, b)

DistUnitsPerMeter == 10

\* JSON values a payload can carry under "distance": a number or not a number
JNum(i) == [t |-> "num", v |-> i]
JStr == [t |-> "str", v |-> 0]
IsNumber(j) == j.t = "num"

\* stands for every distance so large that the float 1 / (distance ** 2) is 0.0:
\* the JSON number 1e999, which json.loads reads as inf, or an integer of more
\* than 162 digits
HugeDistance == 10000

\* a weight without the clamp: 1 / (distance ** 2) at every distance
WeightUnclamped(dist) ==
  IF dist >= HugeDistance THEN [n |-> 0, d |-> 1]
  ELSE [n |-> DistUnitsPerMeter * DistUnitsPerMeter, d |-> dist * dist]

\* weight = 1 / (distance ** 2) if distance > 0.1 else 100, as a rational
Weight(dist) ==
  IF dist >= HugeDistance THEN [n |-> 0, d |-> 1]
  ELSE IF dist > ClampDistance
    THEN [n |-> DistUnitsPerMeter * DistUnitsPerMeter, d |-> dist * dist]
    ELSE [n |-> ClampWeight, d |-> 1]

\* least common denominator of the weights of the readings of anchors S
RECURSIVE CommonDen(_, _)
CommonDen(readings, S) ==
  IF S = {} THEN 1
  ELSE LET a == CHOOSE x \in S : TRUE
       IN LCM(Weight(readings[a].distance.v).d, CommonDen(readings, S \ {a}))

\* the weight of one reading as a numerator over the common denominator L
ScaledWeight(dist, L) == Weight(dist).n * (L \div Weight(dist).d)

RECURSIVE TotalWeight(_, _, _)
TotalWeight(readings, S, L) ==
  IF S = {} THEN 0
  ELSE LET a == CHOOSE x \in S : TRUE
       IN ScaledWeight(readings[a].distance.v, L) + TotalWeight(readings, S \ {a}, L)

RECURSIVE WeightedSum(_, _, _, _)
WeightedSum(readings, S, L, i) ==
  IF S = {} THEN 0
  ELSE LET a == CHOOSE x \in S : TRUE
       IN esp32_positions[a][i] * ScaledWeight(readings[a].distance.v, L)
          + WeightedSum(readings, S \ {a}, L, i)

\* half-floor multiples: HalfFloors(1) = 0.5 * floor_height, HalfFloors(3) = 1.5 * ...
HalfFloors(k) == (k * floor_height) \div 2

\* an adjustment with its thresholds at the floor boundaries, 1 and 2 floor heights
SnapFloorAtBoundaries(z) ==
  IF RatLess(z, Rat(HalfFloors(2))) THEN Rat(HalfFloors(1))
  ELSE IF RatLess(z, Rat(HalfFloors(4))) THEN Rat(HalfFloors(3))
  ELSE Rat(HalfFloors(5))

\* "Adjust for floor boundaries": thresholds at 0.5 and 1.5 floor heights
SnapFloor(z) ==
  IF RatLess(z, Rat(HalfFloors(1))) THEN Rat(HalfFloors(1))
  ELSE IF RatLess(z, Rat(HalfFloors(3))) THEN Rat(HalfFloors(3))
  ELSE Rat(HalfFloors(5))

\* the comparison "distance > 0.1" raises TypeError for a non-numeric distance
TriangulateRaises(readings) ==
  \E a \in DOMAIN readings : ~IsNumber(readings[a].distance)

\* weighted centroid of the anchors of the readings, z snapped to a floor
triangulate_position(readings) ==
  LET S  == DOMAIN readings
      L  == CommonDen(readings, S)
      tw == TotalWeight(readings, S, L)
      raw == [i \in 1..3 |->
                IF tw > 0 THEN [n |-> WeightedSum(readings, S, L, i), d |-> tw]
                          ELSE [n |-> WeightedSum(readings, S, L, i), d |-> L]]
  IN <<raw[1], raw[2], SnapFloor(raw[3])>>

\* a test that takes each upper bound as exclusive
InBoundsHalfOpen(bounds, position) ==
  /\ RatLeq(Rat(bounds[1]), position[1]) /\ RatLess(position[1], Rat(bounds[2]))
  /\ RatLeq(Rat(bounds[3]), position[2]) /\ RatLess(position[2], Rat(bounds[4]))
  /\ RatLeq(Rat(bounds[5]), position[3]) /\ RatLess(position[3], Rat(bounds[6]))

InBounds(bounds, position) ==
  /\ RatLeq(Rat(bounds[1]), position[1]) /\ RatLeq(position[1], Rat(bounds[2]))
  /\ RatLeq(Rat(bounds[3]), position[2]) /\ RatLeq(position[2], Rat(bounds[4]))
  /\ RatLeq(Rat(bounds[5]), position[3]) /\ RatLeq(position[3], Rat(bounds[6]))

RECURSIVE FirstRoomFrom(_, _)
FirstRoomFrom(k, position) ==
  IF k > Len(rooms) THEN "Outside"
  ELSE IF InBounds(rooms[k].bounds, position) THEN rooms[k].name
  ELSE FirstRoomFrom(k + 1, position)

\* a lookup that answers "Unknown" where no room contains the position
determine_room_or_unknown(position) ==
  IF FirstRoomFrom(1, position) = "Outside" THEN "Unknown" ELSE FirstRoomFrom(1, position)

determine_room(position) == FirstRoomFrom(1, position)

\* a filter that keeps a reading whose age is exactly the TTL
IsFreshInclusive(reading, t) == t - reading.timestamp <= TTL

\* "Filter out old readings (older than 60 seconds)"
IsFresh(reading, t) == t - reading.timestamp < TTL

valid_readings(readings, t) ==
  [a \in {x \in DOMAIN readings : IsFresh(readings[x], t)} |-> readings[a]]

\* ------------------------------------------------------------------ inputs
Dev1 == "irk:1f675efed04b065afa81b46b500cf042"
Dev2 == "irk:7aa501ab6bd5c2382aecff28ddfa1eee"

Topic(device, part) == <<"espresense", "devices", device, part>>

Payload(kind, has, dist) == [kind |-> kind, has_distance |-> has, distance |-> dist]
Distance(dist) == Payload("object", TRUE, dist)

\* the messages delivered: for one tracked device, distances of 0 and 0.4 m
\* from one anchor, of 0.4 m from a second and of 0 m from two more, one of them
\* an anchor whose configured position lies outside every room; from the
\* first anchor also a negative, a non-numeric and a missing distance, a payload
\* that is a JSON scalar and one that is not JSON; an untracked device, an
\* unknown anchor and a topic that is too short
InMessages ==
  {[topic |-> Topic(Dev1, a), payload |-> Distance(JNum(v))] :
     a \in {"kitchen"}, v \in {0, 4}}
  \cup {[topic |-> Topic(Dev1, "readingroom"), payload |-> Distance(JNum(4))],
         [topic |-> Topic(Dev1, "thetophat"), payload |-> Distance(JNum(0))],
         [topic |-> Topic(Dev1, "bedroom"), payload |-> Distance(JNum(0))]}
  \cup {[topic |-> Topic(Dev1, "kitchen"), payload |-> p] :
     p \in {Distance(JNum(-1)), Distance(JStr), Payload("object", FALSE, JNum(0)),
            Payload("scalar", FALSE, JNum(0)), Payload("garbage", FALSE, JNum(0))}}
  \cup {[topic |-> tp, payload |-> Distance(JNum(0))] :
     tp \in {Topic("irk:00", "kitchen"), Topic(Dev1, "garage"),
             <<"espresense", "devices">>}}

SaveOutcomes == {"ok", "open_fail", "write_fail"}

\* the moments, in seconds since the start, at which messages are delivered after
\* the first: they make ages of 30, of 60 (the TTL exactly) and of 90 seconds
Times == {60, 90}
SetBacks == {60}

EmptyMap == [x \in {} |-> 0]

ZeroPosition == <<Rat(0), Rat(0), Rat(0)>>

\* what a previous run can have left in the JSON file: a state for each device
\* that run tracked, with the room it last wrote
PriorState(S, r) ==
  [d \in S |-> [room |-> r, position |-> ZeroPosition, timestamp |-> 0,
                friendly_name |-> device_names[d]]]

InitialFiles ==
  {[status |-> st, data |-> EmptyMap] : st \in {"absent", "corrupt", "unreadable"}}
  \cup {[status |-> "ok", data |-> PriorState(S, r)] :
          S \in {device_ids, device_ids \ {Dev1}}, r \in {"Hall"}}

\* ------------------------------------------------------------------- state
VARIABLES
  pc,               \* "init" before the constructor ran, "running", "crashed"
  file,             \* device_locations.json
  now,              \* the wall clock, datetime.now()
  elapsed,          \* the time really elapsed
  device_readings,  \* device id -> (anchor id -> reading)
  device_locations, \* device id -> location state
  stored,           \* <<device id, anchor id>> of the reading the last operation stored
  saved,            \* the saves the last operation invoked
  notified,         \* the "moved to" notifications the last operation printed
  logged,           \* the exception the last operation caught and printed
  raised,           \* the exception the last operation let escape
  msgs,             \* messages delivered so far
  thread,           \* where each callback thread is inside on_message
  probe             \* the last direct call of a method: its arguments and result

vars == <<pc, file, now, elapsed, device_readings, device_locations,
          stored, saved, notified, logged, raised, msgs, thread, probe>>

\* a client that calls on_message from two threads
TwoThreads == {1, 2}

\* client.loop_start() runs one network thread; it alone calls on_message
Threads == {1}

Idle == [at |-> "idle", device_id |-> "", room |-> "", position |-> ZeroPosition]

\* no method was called directly
NoCall == [fn |-> "none"]

\* ----------------------------------------------------------- persistence
\* open(json_file, 'r') and json.load: the exception raised, if any
LoadError(f) ==
  CASE f.status = "absent" -> "FileNotFoundError"
    [] f.status = "corrupt" -> "JSONDecodeError"
    [] f.status = "unreadable" -> "PermissionError"
    [] OTHER -> "none"

\* except (FileNotFoundError, json.JSONDecodeError)
LoadCatches(e) == e \in {"FileNotFoundError", "JSONDecodeError"}

\* a save that leaves the file as it was
WriteFileKeepsOld(f, locations, outcome) == f

\* open(json_file, 'w') and json.dump: the file afterwards
WriteFile(f, locations, outcome) ==
  CASE outcome = "ok" -> [status |-> "ok", data |-> locations]
    [] outcome = "open_fail" -> f
    [] outcome = "write_fail" -> [status |-> "corrupt", data |-> EmptyMap]

SaveError(outcome) == IF outcome = "ok" THEN "none" ELSE "OSError"

\* a write without its except clause
SaveCatchesNothing(e) == FALSE

\* except Exception, around the write
SaveCatches(e) == TRUE

\* update_json_file: the file afterwards, the exception printed and the one escaping
update_json_file(f, locations, outcome) ==
  LET e == SaveError(outcome)
  IN [file |-> WriteFile(f, locations, outcome),
      logged |-> IF e # "none" /\ SaveCatches(e) THEN e ELSE "none",
      exc |-> IF e # "none" /\ ~SaveCatches(e) THEN e ELSE "none"]

\* ------------------------------------------------------------ constructor
InitialLocations(t) ==
  [d \in device_ids |-> [room |-> "Unknown", position |-> ZeroPosition, timestamp |-> t]]

\* __init__: default tables, then the load of the JSON file
Construct(outcome) ==
  /\ pc = "init"
  /\ device_readings' = [d \in device_ids |-> EmptyMap]
  /\ LET e == LoadError(file)
         w == update_json_file(file, InitialLocations(now), outcome)
     IN IF e = "none"
          THEN /\ device_locations' = file.data
               /\ file' = file
               /\ saved' = <<>>
               /\ logged' = "none"
               /\ raised' = "none"
               /\ pc' = "running"
        ELSE IF LoadCatches(e)
          THEN /\ device_locations' = InitialLocations(now)
               /\ file' = w.file
               /\ saved' = <<[data |-> InitialLocations(now), outcome |-> outcome]>>
               /\ logged' = w.logged
               /\ raised' = w.exc
               /\ pc' = IF w.exc = "none" THEN "running" ELSE "crashed"
          ELSE /\ device_locations' = InitialLocations(now)
               /\ file' = file
               /\ saved' = <<>>
               /\ logged' = "none"
               /\ raised' = e
               /\ pc' = "crashed"
  /\ notified' = <<>>
  /\ stored' = <<>>
  /\ UNCHANGED <<now, elapsed, msgs, thread, probe>>

\* ---------------------------------------------------------------- tracker
\* self.device_locations[device_id].get("room", "Unknown")
StoredRoom(state) == IF "room" \in DOMAIN state THEN state.room ELSE "Unknown"

\* a test that takes every computed room for a change
RoomChangedAlways(room, state) == TRUE

\* "Check if the room has changed"
RoomChanged(room, state) == room # StoredRoom(state)

\* a count test that lets two readings through
EnoughWithTwo(readings) == Cardinality(DOMAIN readings) >= MinReadings - 1

\* enough readings to triangulate
Enough(readings) == Cardinality(DOMAIN readings) >= MinReadings

NoDecision(e) == [exc |-> e, change |-> FALSE, room |-> "", position |-> ZeroPosition]

\* update_device_location up to the room-change test: the exception raised, or
\* whether the room changed, and the room and position computed
decide_location(device_id, dr, dl, t) ==
  LET readings == dr[device_id]
      valid == valid_readings(readings, t)
  IN IF ~Enough(readings) THEN NoDecision("none")
     ELSE IF ~Enough(valid) THEN NoDecision("none")
     ELSE IF TriangulateRaises(valid) THEN NoDecision("TypeError")
     ELSE LET position == triangulate_position(valid)
              room == determine_room(position)
          IN IF device_id \notin DOMAIN dl THEN NoDecision("KeyError")
             ELSE [exc |-> "none", change |-> RoomChanged(room, dl[device_id]),
                   room |-> room, position |-> position]

\* what a handler did besides storing a reading
Unchanged(dl, f, e) == [locations |-> dl, file |-> f, saved |-> <<>>,
                        notified |-> <<>>, logged |-> "none", exc |-> e]

\* a new state that keeps the start position instead of the computed one
NewStateNoPosition(device_id, room, position, t) ==
  [room |-> room, position |-> ZeroPosition, timestamp |-> t,
   friendly_name |-> device_names[device_id]]

\* the state stored on a room change
NewState(device_id, room, position, t) ==
  [room |-> room, position |-> position, timestamp |-> t,
   friendly_name |-> device_names[device_id]]

\* a write that stamps the new room and position on every device's state
write_location_of_all(device_id, room, position, dl, f, t, outcome) ==
  LET updated == [d \in DOMAIN dl |-> NewState(d, room, position, t)]
      w == update_json_file(f, updated, outcome)
  IN [locations |-> updated, file |-> w.file,
      saved |-> <<[data |-> updated, outcome |-> outcome]>>,
      notified |-> IF w.exc = "none" THEN <<<<device_names[device_id], room>>>> ELSE <<>>,
      logged |-> w.logged, exc |-> w.exc]

\* update_device_location after the test: the new state, the write, the print
write_location(device_id, room, position, dl, f, t, outcome) ==
  LET updated ==
        [d \in DOMAIN dl |->
           IF d = device_id THEN NewState(device_id, room, position, t) ELSE dl[d]]
      w == update_json_file(f, updated, outcome)
  IN [locations |-> updated, file |-> w.file,
      saved |-> <<[data |-> updated, outcome |-> outcome]>>,
      notified |-> IF w.exc = "none" THEN <<<<device_names[device_id], room>>>> ELSE <<>>,
      logged |-> w.logged, exc |-> w.exc]

\* "espresense_" + topic_parts[3]
Esp32Name(part) == "espresense_" \o part

NotStored(dr, e) == [readings |-> dr, exc |-> e, stored |-> <<>>]

\* on_message up to the call of update_device_location: the readings afterwards,
\* the exception raised, the <<device, anchor>> whose reading was stored
receive(msg, dr, t, real) ==
  IF msg.payload.kind = "garbage" THEN NotStored(dr, "JSONDecodeError")
  ELSE IF Len(msg.topic) < 4 THEN NotStored(dr, "IndexError")
  ELSE LET device_id == msg.topic[3]
           esp32_name == Esp32Name(msg.topic[4])
       IN IF device_id \notin DOMAIN device_names THEN NotStored(dr, "none")
          ELSE IF esp32_name \notin DOMAIN esp32_positions THEN NotStored(dr, "none")
          ELSE IF msg.payload.kind # "object" THEN NotStored(dr, "AttributeError")
          ELSE LET reading ==
                     [distance |-> IF msg.payload.has_distance
                                     THEN msg.payload.distance ELSE JNum(0),
                      timestamp |-> t, arrived |-> real]
               IN [readings |->
                     [dr EXCEPT ![device_id] =
                        [a \in DOMAIN dr[device_id] \cup {esp32_name} |->
                           IF a = esp32_name THEN reading ELSE dr[device_id][a]]],
                   exc |-> "none", stored |-> <<device_id, esp32_name>>]

\* an except clause that names one exception type
OnMessageCatchesKeyError(e) == e = "KeyError"

\* except Exception as e: print(...)
OnMessageCatches(e) == TRUE

Logged(exc, logged_inside) ==
  IF exc # "none" /\ OnMessageCatches(exc) THEN exc ELSE logged_inside

Raised(exc) == IF exc # "none" /\ ~OnMessageCatches(exc) THEN exc ELSE "none"

\* on_message, called by the MQTT client for one delivered message, with the
\* update_device_location it calls; the write of the JSON file, where the
\* message leads to one, succeeds or fails
OnMessage(msg) ==
  /\ pc = "running"
  /\ msgs < MaxMsgs
  /\ \E rc \in {receive(msg, device_readings, now, elapsed)} :
     \E d \in {IF rc.stored = <<>> THEN NoDecision(rc.exc)
               ELSE decide_location(rc.stored[1], rc.readings, device_locations, now)} :
     \E outcome \in IF d.change THEN SaveOutcomes ELSE {"ok"} :
     \E u \in {IF d.change
                 THEN write_location(rc.stored[1], d.room, d.position,
                                     device_locations, file, now, outcome)
                 ELSE Unchanged(device_locations, file, d.exc)} :
       /\ device_readings' = rc.readings
       /\ stored' = rc.stored
       /\ device_locations' = u.locations
       /\ file' = u.file
       /\ saved' = u.saved
       /\ notified' = u.notified
       /\ logged' = Logged(u.exc, u.logged)
       /\ raised' = Raised(u.exc)
  /\ msgs' = msgs + 1
  /\ UNCHANGED <<pc, now, elapsed, thread, probe>>

\* time passes, until `time` seconds have elapsed since the start
Tick(time) ==
  /\ pc = "running"
  /\ time > elapsed
  /\ elapsed' = time
  /\ now' = now + (time - elapsed)
  /\ UNCHANGED <<pc, file, device_readings, device_locations, stored, saved,
                 notified, logged, raised, msgs, thread, probe>>

\* the wall clock is set back (an operator, NTP, the end of daylight saving time)
ClockSetBack(back) ==
  /\ pc = "running"
  /\ now = elapsed
  /\ now' = now - back
  /\ UNCHANGED <<pc, file, elapsed, device_readings, device_locations, stored,
                 saved, notified, logged, raised, msgs, thread, probe>>

Init ==
  /\ pc = "init"
  /\ file \in InitialFiles
  /\ now = 0
  /\ elapsed = 0
  /\ device_readings = EmptyMap
  /\ device_locations = EmptyMap
  /\ saved = <<>>
  /\ notified = <<>>
  /\ logged = "none"
  /\ raised = "none"
  /\ msgs = 0
  /\ stored = <<>>
  /\ thread = [t \in Threads |-> Idle]
  /\ probe = NoCall

\* ------------------------------------------------- on_message, step by step
\* on_message up to the call of update_device_location, run by thread t
TReceive(t, msg) ==
  /\ pc = "running"
  /\ msgs < MaxMsgs
  /\ thread[t].at = "idle"
  /\ \E rc \in {receive(msg, device_readings, now, elapsed)} :
       /\ device_readings' = rc.readings
       /\ stored' = rc.stored
       /\ logged' = Logged(rc.exc, "none")
       /\ raised' = Raised(rc.exc)
       /\ thread' = IF rc.stored = <<>> THEN thread
                    ELSE [thread EXCEPT ![t] = [Idle EXCEPT !.at = "update",
                                                            !.device_id = rc.stored[1]]]
  /\ saved' = <<>>
  /\ notified' = <<>>
  /\ msgs' = msgs + 1
  /\ UNCHANGED <<pc, file, now, elapsed, device_locations, probe>>

\* update_device_location up to the room-change test, run by thread t
TDecide(t) ==
  /\ pc = "running"
  /\ thread[t].at = "update"
  /\ \E d \in {decide_location(thread[t].device_id, device_readings,
                               device_locations, now)} :
       /\ logged' = Logged(d.exc, "none")
       /\ raised' = Raised(d.exc)
       /\ thread' = IF d.change
                      THEN [thread EXCEPT ![t] = [at |-> "write",
                                                  device_id |-> thread[t].device_id,
                                                  room |-> d.room,
                                                  position |-> d.position]]
                      ELSE [thread EXCEPT ![t] = Idle]
  /\ UNCHANGED <<pc, file, now, elapsed, device_readings, device_locations,
                 stored, saved, notified, msgs, probe>>

\* update_device_location after the test, run by thread t
TWrite(t) ==
  /\ pc = "running"
  /\ thread[t].at = "write"
  /\ \E outcome \in SaveOutcomes :
     \E u \in {write_location(thread[t].device_id, thread[t].room, thread[t].position,
                              device_locations, file, now, outcome)} :
       /\ device_locations' = u.locations
       /\ file' = u.file
       /\ saved' = u.saved
       /\ notified' = u.notified
       /\ logged' = Logged(u.exc, u.logged)
       /\ raised' = Raised(u.exc)
  /\ thread' = [thread EXCEPT ![t] = Idle]
  /\ UNCHANGED <<pc, now, elapsed, device_readings, stored, msgs, probe>>

\* ------------------------------------------------ methods called directly
\* The methods below read the configuration only, so each is called once, on a
\* tracker that has just been constructed.
\* the values the room table uses on two of its six columns
AxisBounds(i, j) ==
  {rooms[k].bounds[i] : k \in 1..Len(rooms)} \cup {rooms[k].bounds[j] : k \in 1..Len(rooms)}

\* every bound of an axis, the midpoint between each two neighbouring bounds and
\* a point beyond either end
AxisPoints(B) ==
  B \cup {(p[1] + p[2]) \div 2 :
           p \in {q \in B \X B : q[1] < q[2] /\ ~\E c \in B : q[1] < c /\ c < q[2]}}
    \cup {-1} \cup {b + 1 : b \in {c \in B : \A e \in B : e <= c}}

\* the positions determine_room is called with
ProbePositions ==
  {<<Rat(x), Rat(y), Rat(z)>> :
     x \in AxisPoints(AxisBounds(1, 2)),
     y \in AxisPoints(AxisBounds(3, 4)),
     z \in AxisPoints(AxisBounds(5, 6))}

\* the raw heights the floor adjustment is applied to: each multiple of half a
\* floor height up to three and a half floors, and the heights next to it
ProbeHeights == {Rat(HalfFloors(k) + e) : k \in 0..7, e \in {-1, 0, 1}}

\* the distances a weight is computed for, in 0.1 m: from -0.1 m to 1.2 m, and
\* one whose weight underflows
ProbeDistances == (-1..12) \cup {HugeDistance}

\* the readings triangulate_position is called with: from one anchor or from
\* three, at 0 m, 0.2 m, 0.4 m or a distance whose weight underflows
ProbeReadings ==
  UNION {[S -> {[distance |-> JNum(v), timestamp |-> 0, arrived |-> 0] :
                  v \in {0, 2, 4, HugeDistance}}] :
           S \in {T \in SUBSET esp32_ids : Cardinality(T) \in {1, 3}}}

\* determine_room(position)
CallDetermineRoom(position) ==
  /\ pc = "running"
  /\ probe = NoCall
  /\ probe' = [fn |-> "determine_room", position |-> position,
               room |-> determine_room(position)]
  /\ UNCHANGED <<pc, file, now, elapsed, device_readings, device_locations,
                 stored, saved, notified, logged, raised, msgs, thread>>

\* the floor adjustment that ends triangulate_position, applied to a raw height
CallSnapFloor(z) ==
  /\ pc = "running"
  /\ probe = NoCall
  /\ probe' = [fn |-> "snap", z |-> z, snapped |-> SnapFloor(z)]
  /\ UNCHANGED <<pc, file, now, elapsed, device_readings, device_locations,
                 stored, saved, notified, logged, raised, msgs, thread>>

\* the weight triangulate_position gives a reading at a distance
CallWeight(dist) ==
  /\ pc = "running"
  /\ probe = NoCall
  /\ probe' = [fn |-> "weight", distance |-> dist, weight |-> Weight(dist)]
  /\ UNCHANGED <<pc, file, now, elapsed, device_readings, device_locations,
                 stored, saved, notified, logged, raised, msgs, thread>>

\* triangulate_position(device_id, readings)
CallTriangulate(readings) ==
  /\ pc = "running"
  /\ probe = NoCall
  /\ probe' = [fn |-> "triangulate", readings |-> readings,
               position |-> triangulate_position(readings)]
  /\ UNCHANGED <<pc, file, now, elapsed, device_readings, device_locations,
                 stored, saved, notified, logged, raised, msgs, thread>>

Next ==
  \/ \E outcome \in SaveOutcomes : Construct(outcome)
  \/ \E msg \in InMessages : OnMessage(msg)
  \/ \E time \in Times : Tick(time)

Spec == Init /\ [][Next]_vars

\* the handler taken step by step by the threads that call it
NextThreads ==
  \/ \E outcome \in SaveOutcomes : Construct(outcome)
  \/ \E t \in Threads, msg \in InMessages : TReceive(t, msg)
  \/ \E t \in Threads : TDecide(t)
  \/ \E t \in Threads : TWrite(t)
  \/ \E time \in Times : Tick(time)

SpecThreads == Init /\ [][NextThreads]_vars

\* the environment also sets the wall clock back
NextClock ==
  \/ Next
  \/ \E back \in SetBacks : ClockSetBack(back)

SpecClock == Init /\ [][NextClock]_vars

\* a tracker constructed without a JSON file, whose methods are called directly
InitFunctions == Init /\ file.status = "absent"

NextFunctions ==
  \/ \E outcome \in SaveOutcomes : Construct(outcome)
  \/ \E position \in ProbePositions : CallDetermineRoom(position)
  \/ \E z \in ProbeHeights : CallSnapFloor(z)
  \/ \E dist \in ProbeDistances : CallWeight(dist)
  \/ \E readings \in ProbeReadings : CallTriangulate(readings)

SpecFunctions == InitFunctions /\ [][NextFunctions]_vars

\* ------------------------------------------------------------- properties
\* The properties are stated over the variables alone: what is fresh, what is
\* computable and what room a set of readings gives are written out here from
\* the documented numbers (60 seconds, three readings), next to the model's
\* triangulate_position and determine_room.

\* the readings of one device that are younger than 60 seconds at time t
FreshAt(readings, t) ==
  [a \in {x \in DOMAIN readings : t - readings[x].timestamp < 60} |-> readings[a]]

\* at least three fresh readings, each with a number for its distance
Locatable(readings, t) ==
  /\ Cardinality(DOMAIN FreshAt(readings, t)) >= 3
  /\ \A a \in DOMAIN FreshAt(readings, t) : readings[a].distance.t = "num"

PositionAt(readings, t) == triangulate_position(FreshAt(readings, t))

RoomAt(readings, t) == determine_room(PositionAt(readings, t))

\* this step is the handling of a message that stored a reading of device d
Processed(d) ==
  /\ msgs' = msgs + 1
  /\ stored' # <<>>
  /\ stored'[1] = d

\* this step changed no reading but the one it stored
OnlyStoredReadingChanged ==
  \A e \in DOMAIN device_readings :
    /\ DOMAIN device_readings[e] \subseteq DOMAIN device_readings'[e]
    /\ \A a \in DOMAIN device_readings'[e] :
         <<e, a>> # stored' =>
           /\ a \in DOMAIN device_readings[e]
           /\ device_readings'[e][a] = device_readings[e][a]

\* this step left the states, the file and the outputs alone
NothingWritten ==
  /\ device_locations' = device_locations
  /\ file' = file
  /\ saved' = <<>>
  /\ notified' = <<>>

\* the last operation stored a reading of device d, and no time passed since;
\* every reading of d carries a distance that is a number and not negative
JustProcessed(d) ==
  /\ pc = "running"
  /\ \A a \in DOMAIN device_readings[d] :
       device_readings[d][a].distance.t = "num" /\ device_readings[d][a].distance.v >= 0
  /\ stored # <<>>
  /\ stored[1] = d
  /\ device_readings[d][stored[2]].timestamp = now

\* C1: a reading that leaves the computed room equal to the stored room changes
\* nothing but that reading: no state is replaced, nothing is saved, nothing is
\* notified.
C1_SameRoomWritesNothing ==
  [][\A d \in device_ids :
       (/\ Processed(d)
        /\ d \in DOMAIN device_locations
        /\ Locatable(device_readings'[d], now)
        /\ RoomAt(device_readings'[d], now) = device_locations[d].room)
       => (NothingWritten /\ OnlyStoredReadingChanged)]_vars

\* a reading was processed with three fresh readings, the room computed is the
\* room stored, and the operation saved and notified nothing
C1_Witness ==
  \E d \in device_ids :
    /\ JustProcessed(d)
    /\ d \in DOMAIN device_locations
    /\ Locatable(device_readings[d], now)
    /\ RoomAt(device_readings[d], now) = device_locations[d].room
    /\ device_locations[d].room # "Unknown"
    /\ saved = <<>>
    /\ notified = <<>>

\* C2: a reading that makes the computed room differ from the stored room sets
\* the device's state to the new room, the computed position and the current
\* time, saves the whole collection of states exactly once and notifies the move
\* exactly once; a message that changes no room saves and notifies nothing.
C2_RoomChangeWritesOnce ==
  [][/\ \A d \in device_ids :
          (/\ Processed(d)
           /\ d \in DOMAIN device_locations
           /\ Locatable(device_readings'[d], now))
          => \A position \in {PositionAt(device_readings'[d], now)} :
             \A room \in {determine_room(position)} :
                (room # device_locations[d].room)
                => /\ device_locations' =
                        [e \in DOMAIN device_locations |->
                           IF e = d
                             THEN [room |-> room, position |-> position,
                                   timestamp |-> now,
                                   friendly_name |-> device_names[d]]
                             ELSE device_locations[e]]
                   /\ Len(saved') = 1
                   /\ saved'[1].data = device_locations'
                   /\ notified' = <<<<device_names[d], room>>>>
     /\ (msgs' = msgs + 1) =>
          LET changed == {e \in DOMAIN device_locations :
                            device_locations'[e].room # device_locations[e].room}
          IN /\ DOMAIN device_locations' = DOMAIN device_locations
             /\ Len(saved') = Cardinality(changed)
             /\ Len(notified') = Cardinality(changed)]_vars

\* a device restored in one room was just moved to another: one save of the
\* collection in memory, one notification
C2_Witness ==
  \E d \in device_ids :
    /\ JustProcessed(d)
    /\ file.status = "ok"
    /\ d \in DOMAIN device_locations
    /\ device_locations[d].room = RoomAt(device_readings[d], now)
    /\ device_locations[d].timestamp = now
    /\ Len(saved) = 1
    /\ saved[1].outcome = "ok"
    /\ saved[1].data = device_locations
    /\ notified = <<<<device_names[d], device_locations[d].room>>>>

\* C3: after a reading of a device is stored, fewer than three fresh readings of
\* that device leave every state as it was, with no save and no notification,
\* however many stale readings are still stored; and the passing of time alone
\* changes no state, so the device keeps its last known room.
C3_TooFewFreshKeepsState ==
  [][/\ \A d \in device_ids :
          (/\ Processed(d)
           /\ Cardinality(DOMAIN FreshAt(device_readings'[d], now)) < 3)
          => NothingWritten
     /\ (pc = "running" /\ msgs' = msgs) => device_locations' = device_locations]_vars

\* a device with a known room has three or more readings stored, fewer than three
\* of them fresh, and the reading just processed saved and notified nothing
C3_Witness ==
  \E d \in device_ids :
    /\ JustProcessed(d)
    /\ d \in DOMAIN device_locations
    /\ device_locations[d].room # "Unknown"
    /\ Cardinality(DOMAIN device_readings[d]) >= 3
    /\ Cardinality(DOMAIN FreshAt(device_readings[d], now)) < 3
    /\ saved = <<>>
    /\ notified = <<>>

\* C4: the position written on a room change is the triangulation of exactly the
\* readings younger than 60 seconds, of which there are at least three, so a
\* reading aged 60 seconds or more contributes nothing; and no step removes a
\* reading from the store or alters one it did not store.
C4_FreshIffYoungerThanTTL ==
  [][/\ \A d \in device_ids :
          (Processed(d) /\ saved' # <<>>)
          => /\ Locatable(device_readings'[d], now)
             /\ device_locations'[d].position = PositionAt(device_readings'[d], now)
             /\ device_locations'[d].room = determine_room(device_locations'[d].position)
     /\ (pc = "running") => OnlyStoredReadingChanged]_vars

\* a room was just written while the store held a reading aged exactly 60
\* seconds, whose inclusion would have given another position
C4_Witness ==
  \E d \in device_ids :
    /\ JustProcessed(d)
    /\ saved # <<>>
    /\ device_locations[d].timestamp = now
    /\ \E a \in DOMAIN device_readings[d] :
         /\ now - device_readings[d][a].timestamp = 60
         /\ PositionAt(device_readings[d], now) #
              triangulate_position(
                [b \in DOMAIN FreshAt(device_readings[d], now) \cup {a} |->
                   device_readings[d][b]])

\* a message to drop: a topic without a device and an anchor part, a device that
\* is not tracked, an anchor that is not known, a payload that is not JSON or is
\* JSON but not an object
Ignorable(msg) ==
  \/ msg.payload.kind # "object"
  \/ Len(msg.topic) < 4
  \/ msg.topic[3] \notin device_ids
  \/ ("espresense_" \o msg.topic[4]) \notin esp32_ids

\* C5: the handling of a message with an unknown device, an unknown anchor or
\* an unparsable payload changes no reading and no state, saves and notifies
\* nothing, and lets no exception out of the handler.
C5_IgnorableInputDropped ==
  [][\A msg \in InMessages :
       (Ignorable(msg) /\ OnMessage(msg))
       => /\ device_readings' = device_readings
          /\ stored' = <<>>
          /\ NothingWritten
          /\ raised' = "none"
          /\ pc' = "running"]_vars

\* a payload that is not JSON was just handled, with readings in the store, and
\* its exception was caught inside the handler
C5_Witness ==
  /\ pc = "running"
  /\ msgs > 0
  /\ stored = <<>>
  /\ logged = "JSONDecodeError"
  /\ raised = "none"
  /\ \E d \in device_ids : Cardinality(DOMAIN device_readings[d]) >= 3

\* C6: every reading in the store has a distance that is a number and is not
\* negative.
C6_StoredDistancesNonNegative ==
  \A d \in DOMAIN device_readings :
    \A a \in DOMAIN device_readings[d] :
      /\ device_readings[d][a].distance.t = "num"
      /\ device_readings[d][a].distance.v >= 0

\* C7: when the save of a room change fails, the device's state in memory is
\* the new room and position all the same, the move is notified, the failure
\* is caught and printed, no exception leaves the handler and the tracker keeps
\* running.
C7_FailedSaveKeepsUpdate ==
  [][\A d \in device_ids :
       (/\ Processed(d)
        /\ saved' # <<>>
        /\ saved'[1].outcome # "ok")
       => \A position \in {PositionAt(device_readings'[d], now)} :
          \A room \in {determine_room(position)} :
            /\ room # device_locations[d].room
            /\ device_locations'[d].room = room
            /\ device_locations'[d].position = position
            /\ device_locations'[d].timestamp = now
            /\ notified' = <<<<device_names[d], room>>>>
            /\ logged' = "OSError"
            /\ raised' = "none"
            /\ pc' = "running"]_vars

\* the save of a room change just failed: the file does not hold the states in
\* memory, the new room is in memory and was notified
C7_Witness ==
  \E d \in device_ids :
    /\ JustProcessed(d)
    /\ Len(saved) = 1
    /\ saved[1].outcome # "ok"
    /\ logged = "OSError"
    /\ file.data # device_locations
    /\ device_locations[d].timestamp = now
    /\ device_locations[d].room = RoomAt(device_readings[d], now)
    /\ notified = <<<<device_names[d], device_locations[d].room>>>>

\* C8: a start with the JSON file absent, corrupt or unreadable succeeds, with
\* every tracked device in room "Unknown".
C8_LoadNeverFatal ==
  [][(pc = "init" /\ file.status \in {"absent", "corrupt", "unreadable"})
     => /\ pc' = "running"
        /\ raised' = "none"
        /\ DOMAIN device_locations' = device_ids
        /\ \A d \in device_ids : device_locations'[d].room = "Unknown"]_vars

\* C9: once constructed, the tracker holds a state for each tracked device and
\* for nothing else, so the room-change test never misses one.
C9_OneStatePerDevice ==
  /\ (pc = "running") => DOMAIN device_locations = device_ids
  /\ logged # "KeyError"

ArrivedWithin(readings, real) ==
  [a \in {x \in DOMAIN readings : real - readings[x].arrived < 60} |-> readings[a]]

\* C11: whatever happens to the wall clock, a position is written only from
\* readings that arrived less than 60 seconds of elapsed time ago: there are at
\* least three of them and the position is their triangulation.
C11_StalenessUsesElapsedTime ==
  [][\A d \in device_ids :
       (Processed(d) /\ saved' # <<>>)
       => /\ Cardinality(DOMAIN ArrivedWithin(device_readings'[d], elapsed)) >= 3
          /\ device_locations'[d].position =
               triangulate_position(ArrivedWithin(device_readings'[d], elapsed))]_vars

\* room k of the table contains the position, its bounds included, on all axes
Contains(k, position) ==
  \A i \in 1..3 :
    /\ rooms[k].bounds[2 * i - 1] * position[i].d <= position[i].n
    /\ position[i].n <= rooms[k].bounds[2 * i] * position[i].d

\* the rooms of the table that contain the position, by their place in it
RoomsContaining(position) == {k \in 1..Len(rooms) : Contains(k, position)}

\* C12: determine_room returns the name of the first room of the table, in
\* declaration order, whose inclusive bounds contain the position, and
\* "Outside" exactly when no room contains it.
C12_FirstContainingRoom ==
  (probe.fn = "determine_room") =>
    \A inside \in {RoomsContaining(probe.position)} :
      /\ (inside = {}) <=> (probe.room = "Outside")
      /\ \A k \in inside :
           (\A j \in inside : k <= j) => probe.room = rooms[k].name

\* a position on the face that two rooms share and inside no third room was
\* looked up, and the room listed first was returned
C12_Witness ==
  /\ probe.fn = "determine_room"
  /\ \E k, j \in 1..Len(rooms) :
       /\ k < j
       /\ RoomsContaining(probe.position) = {k, j}
       /\ \E i \in 1..3 :
            /\ rooms[k].bounds[2 * i] = rooms[j].bounds[2 * i - 1]
            /\ probe.position[i] = Rat(rooms[k].bounds[2 * i])
       /\ probe.room = rooms[k].name

\* C13: the floor adjustment applied to its own result gives that result again.
C13_SnapIdempotent ==
  (probe.fn = "snap") => SnapFloor(probe.snapped) = probe.snapped

\* the three floor-centre heights: 0.5, 1.5 and 2.5 floor heights, in 1e-4 m
FloorCentres == {(k * floor_height) \div 2 : k \in {1, 3, 5}}

\* twice the distance between a height and a floor centre, over the
\* denominator of the height
Apart(z, centre) ==
  IF z.n >= centre * z.d THEN z.n - centre * z.d ELSE centre * z.d - z.n

\* C14: the floor adjustment returns a floor centre, and no other floor centre
\* is strictly closer to the raw height than the one returned.
C14_SnapToNearestCentre ==
  (probe.fn = "snap") =>
    /\ probe.snapped.d = 1
    /\ probe.snapped.n \in FloorCentres
    /\ \A centre \in FloorCentres :
         Apart(probe.z, probe.snapped.n) <= Apart(probe.z, centre)

\* C15: triangulate_position returns the weighted estimates of x and y as they
\* are, and for z the value 0.5, 1.5 or 2.5 floor heights: 0.5 for a raw z below
\* 0.5 floor heights, 1.5 for a raw z below 1.5 floor heights, 2.5 otherwise.
C15_QuantizedHeight ==
  (probe.fn = "triangulate") =>
    \A S \in {DOMAIN probe.readings} :
    \A L \in {CommonDen(probe.readings, S)} :
    \A total \in {TotalWeight(probe.readings, S, L)} :
    \A den \in {IF total > 0 THEN total ELSE L} :
    \A z \in {WeightedSum(probe.readings, S, L, 3)} :
      /\ probe.position[1] = [n |-> WeightedSum(probe.readings, S, L, 1), d |-> den]
      /\ probe.position[2] = [n |-> WeightedSum(probe.readings, S, L, 2), d |-> den]
      /\ probe.position[3] =
           [n |-> IF 2 * z < floor_height * den THEN floor_height \div 2
                  ELSE IF 2 * z < 3 * floor_height * den THEN (3 * floor_height) \div 2
                  ELSE (5 * floor_height) \div 2,
            d |-> 1]

\* three readings were triangulated to a raw height between 0.5 and 1 floor
\* heights, and the height returned is 1.5 floor heights
C15_Witness ==
  /\ probe.fn = "triangulate"
  /\ Cardinality(DOMAIN probe.readings) = 3
  /\ \A S \in {DOMAIN probe.readings} :
     \A L \in {CommonDen(probe.readings, S)} :
     \A total \in {TotalWeight(probe.readings, S, L)} :
     \A z \in {WeightedSum(probe.readings, S, L, 3)} :
       /\ total > 0
       /\ floor_height * total < 2 * z
       /\ z < floor_height * total
  /\ probe.position[3] = [n |-> (3 * floor_height) \div 2, d |-> 1]

\* the weight w is 1 / distance^2 for a distance above 0.1 m and 100 at or
\* below 0.1 m, it is positive, and every larger distance weighs strictly less
WeightAsDocumented(dist, w) ==
  /\ w.d > 0
  /\ w.n > 0
  /\ (dist > 1) => w.n * dist * dist = 100 * w.d
  /\ (dist <= 1) => (w.n = 100 * w.d)
  /\ \A further \in ProbeDistances :
       (dist > 1 /\ further > dist) => RatLess(Weight(further), w)

\* C16, as claimed: the weight is 1 / distance^2 above 0.1 m and 100 at or below
\* it, strictly decreasing above 0.1 m and always strictly positive; the total
\* weight of a reading set is positive and the centroid is never divided by zero.
C16_WeightAlwaysPositive ==
  /\ (probe.fn = "weight") => WeightAsDocumented(probe.distance, probe.weight)
  /\ (probe.fn = "triangulate") =>
       /\ TotalWeight(probe.readings, DOMAIN probe.readings,
                      CommonDen(probe.readings, DOMAIN probe.readings)) > 0
       /\ \A i \in 1..3 : probe.position[i].d > 0

\* C16, amended: the same for every distance whose 1 / distance^2 the floats
\* represent; a distance beyond that weighs 0. The total weight is never
\* negative, it is 0 only when every reading weighs 0, and the centroid is never
\* divided by zero: with a total of 0 the sums, which are 0, are returned as
\* they are.
C16_WeightPositiveUnlessUnderflow ==
  /\ (probe.fn = "weight") =>
       IF probe.distance < HugeDistance
         THEN WeightAsDocumented(probe.distance, probe.weight)
         ELSE probe.weight.n = 0 /\ probe.weight.d > 0
  /\ (probe.fn = "triangulate") =>
       \A total \in {TotalWeight(probe.readings, DOMAIN probe.readings,
                                 CommonDen(probe.readings, DOMAIN probe.readings))} :
         /\ total >= 0
         /\ (total = 0) <=> (\A a \in DOMAIN probe.readings :
                               probe.readings[a].distance.v >= HugeDistance)
         /\ \A i \in 1..3 : probe.position[i].d > 0
         /\ (total = 0) => (probe.position[1].n = 0 /\ probe.position[2].n = 0)

\* three readings at 0 m, each clamped to the weight 100, were triangulated
C16_Witness ==
  /\ probe.fn = "triangulate"
  /\ Cardinality(DOMAIN probe.readings) = 3
  /\ \A a \in DOMAIN probe.readings : probe.readings[a].distance.v = 0
  /\ TotalWeight(probe.readings, DOMAIN probe.readings, 1) = 300
  /\ probe.position[1].d = 300
  /\ probe.position[2].d = 300

\* the position lies on a face of room k: one of its coordinates is a bound
OnFace(k, position) ==
  \E i \in 1..3 :
    \/ position[i].n = rooms[k].bounds[2 * i - 1] * position[i].d
    \/ position[i].n = rooms[k].bounds[2 * i] * position[i].d

\* C17: two rooms of the table have no more than points of their faces in
\* common: a position that two rooms contain lies on a face of each of them.
C17_RoomsShareOnlyFaces ==
  (probe.fn = "determine_room") =>
    \A k, j \in RoomsContaining(probe.position) :
      (k # j) => (OnFace(k, probe.position) /\ OnFace(j, probe.position))

\* the names a stored room can take: a room of the table, "Outside", "Unknown"
RoomNames == {rooms[k].name : k \in 1..Len(rooms)} \cup {"Outside", "Unknown"}

\* C18: every stored room is a room of the table, "Outside" or "Unknown", and
\* no step takes the stored room of a device from another value to "Unknown".
C18_NeverBackToUnknown ==
  [][\A d \in DOMAIN device_locations' :
       /\ device_locations'[d].room \in RoomNames
       /\ (d \in DOMAIN device_locations /\ device_locations[d].room # "Unknown")
          => device_locations'[d].room # "Unknown"]_vars

\* a tracker started without a file moved a device out of "Unknown"; later, with
\* fewer than three readings still fresh, a reading of the device was processed
\* and the device has the room it was moved to
C18_Witness ==
  \E d \in device_ids :
    /\ JustProcessed(d)
    /\ d \in DOMAIN device_locations
    /\ device_locations[d].room # "Unknown"
    /\ device_locations[d].position # ZeroPosition
    /\ device_locations[d].timestamp < now
    /\ Cardinality(DOMAIN FreshAt(device_readings[d], now)) < 3
    /\ \E e \in device_ids \ {d} : device_locations[e].room = "Unknown"

\* the (device, anchor) pairs that have a stored reading
StoredPairs(dr) == UNION {{<<d, a>> : a \in DOMAIN dr[d]} : d \in DOMAIN dr}

\* C19: a message for device D and anchor A changes at most the stored reading of
\* (D, A) and the state of D: every other stored reading, and the state of every
\* other device, is after the message what it was before. (`stored` is the pair
\* the message step stored a reading for, empty when it stored none.)
C19_OnlyThePairAndItsDevice ==
  [][(msgs' = msgs + 1) =>
       \A pair \in {IF stored' = <<>> THEN {} ELSE {stored'}} :
         /\ DOMAIN device_readings' = DOMAIN device_readings
         /\ StoredPairs(device_readings') \subseteq StoredPairs(device_readings) \cup pair
         /\ \A pr \in StoredPairs(device_readings) \ pair :
              /\ pr \in StoredPairs(device_readings')
              /\ device_readings'[pr[1]][pr[2]] = device_readings[pr[1]][pr[2]]
         /\ DOMAIN device_locations' = DOMAIN device_locations
         /\ \A d \in DOMAIN device_locations :
              (\A pr \in pair : d # pr[1]) => device_locations'[d] = device_locations[d]]_vars

\* a message has just moved a device that has readings from two other anchors,
\* while another device has a state of its own
C19_Witness ==
  \E d \in device_ids :
    /\ JustProcessed(d)
    /\ saved # <<>>
    /\ d \in DOMAIN device_locations
    /\ device_locations[d].timestamp = now
    /\ Cardinality(DOMAIN device_readings[d] \ {stored[2]}) >= 2
    /\ \E e \in DOMAIN device_locations \ {d} :
         device_locations[e] # device_locations[d]

\* the file holds exactly the in-memory collection
InSync(f, locations) == f = [status |-> "ok", data |-> locations]

\* the saves of a step all succeeded (a step that saves nothing included)
NoSaveFailed(s) == \A i \in 1..Len(s) : s[i].outcome = "ok"

\* C20: the file equals the in-memory collection after a startup and after a
\* message whose saves, if any, succeeded, provided they were equal before or the
\* step saved: so they stay equal until a save fails, and a successful save makes
\* them equal again whatever the file held.
C20_FileFollowsMemory ==
  [][(/\ pc' = "running"
      /\ NoSaveFailed(saved')
      /\ \/ pc = "init"
         \/ InSync(file, device_locations)
         \/ saved' # <<>>)
     => InSync(file', device_locations')]_vars

\* a tracker that began without a usable file has just moved a device and saved,
\* and the file holds the moved device's new state with the others' states
C20_Witness ==
  \E d \in device_ids :
    /\ JustProcessed(d)
    /\ saved # <<>>
    /\ NoSaveFailed(saved)
    /\ InSync(file, device_locations)
    /\ DOMAIN file.data = device_ids
    /\ file.data[d].room \notin {"Unknown", "Hall"}
    /\ \E e \in device_ids \ {d} : file.data[e].room = "Unknown"

====
